---- MODULE Spec2Model ----
(***************************************************************************)
(* A model of mdlinks.CheckFS (src/pkg.go): the walk over a file system,   *)
(* the per-scan document cache, the per-link resolution procedure and the  *)
(* accumulation of BrokenLink entries.                                     *)
(*                                                                         *)
(* Strings are Go strings: a path is the text the program sees ("sub/c.md",*)
(* "../b.md", "/b.md"), and the path helpers below work on its characters. *)
(***************************************************************************)
EXTENDS Integers, Sequences, FiniteSets, TLC

(***************************************************************************)
(* Strings                                                                 *)
(***************************************************************************)

\* s[i:] of Go, 0-based i
From(s, i) == SubSeq(s, i + 1, Len(s))

\* s[i] of Go as a one-character string, 0-based i
At(s, i) == SubSeq(s, i + 1, i + 1)

\* strings.HasSuffix
HasSuffix(s, suf) ==
    /\ Len(s) >= Len(suf)
    /\ SubSeq(s, Len(s) - Len(suf) + 1, Len(s)) = suf

\* strings.HasPrefix
HasPrefix(s, pre) ==
    /\ Len(s) >= Len(pre)
    /\ SubSeq(s, 1, Len(pre)) = pre

\* strings.TrimSuffix
TrimSuffix(s, suf) ==
    IF HasSuffix(s, suf) THEN SubSeq(s, 1, Len(s) - Len(suf)) ELSE s

\* strings.IndexByte: the 0-based index of the first c in s, or -1
RECURSIVE IndexFrom(_, _, _)
IndexFrom(s, c, i) ==
    IF i >= Len(s) THEN -1
    ELSE IF At(s, i) = c THEN i
    ELSE IndexFrom(s, c, i + 1)

IndexByte(s, c) == IndexFrom(s, c, 0)

\* strings.Split(s, "/"): the elements of s between slashes
RECURSIVE SplitSlash(_)
SplitSlash(s) ==
    LET i == IndexByte(s, "/")
    IN  IF i < 0 THEN <<s>>
        ELSE <<SubSeq(s, 1, i)>> \o SplitSlash(From(s, i + 1))

\* strings.Join(elems, "/")
RECURSIVE JoinSlash(_)
JoinSlash(elems) ==
    IF elems = <<>> THEN ""
    ELSE IF Len(elems) = 1 THEN elems[1]
    ELSE elems[1] \o "/" \o JoinSlash(Tail(elems))

(***************************************************************************)
(* Package path and io/fs, as CheckFS uses them                            *)
(***************************************************************************)

\* path.Clean applied to the elements of a path: "" and "." elements are
\* dropped, an inner ".." removes the element before it, a ".." at the start
\* of a rooted path is dropped and of a non-rooted path is kept.
RECURSIVE CleanElems(_, _, _)
CleanElems(elems, out, rooted) ==
    IF elems = <<>> THEN out
    ELSE LET e == Head(elems)
             rest == Tail(elems)
         IN  IF e = "" \/ e = "." THEN CleanElems(rest, out, rooted)
             ELSE IF e = ".." THEN
                 IF out # <<>> /\ out[Len(out)] # ".."
                 THEN CleanElems(rest, SubSeq(out, 1, Len(out) - 1), rooted)
                 ELSE IF rooted THEN CleanElems(rest, out, rooted)
                 ELSE CleanElems(rest, Append(out, ".."), rooted)
             ELSE CleanElems(rest, Append(out, e), rooted)

\* path.Clean
Clean(p) ==
    IF p = "" THEN "."
    ELSE LET rooted == At(p, 0) = "/"
             body == JoinSlash(CleanElems(SplitSlash(p), <<>>, rooted))
         IN  IF rooted THEN "/" \o body
             ELSE IF body = "" THEN "." ELSE body

\* path.Join of two elements: empty elements are ignored, the rest joined
\* with a slash and cleaned; "" when both are empty
Join(a, b) ==
    IF a = "" /\ b = "" THEN ""
    ELSE IF a = "" THEN Clean(b)
    ELSE IF b = "" THEN Clean(a)
    ELSE Clean(a \o "/" \o b)

\* path.Base: the last element of the path, "." for the empty path
Base(p) ==
    IF p = "" THEN "."
    ELSE LET elems == CleanElems(SplitSlash(p), <<>>, FALSE)
         IN  IF elems = <<>> THEN (IF At(p, 0) = "/" THEN "/" ELSE ".")
             ELSE elems[Len(elems)]

\* fs.ValidPath: "." or slash-separated elements none of which is empty,
\* "." or ".."
ValidPath(name) ==
    \/ name = "."
    \/ /\ name # ""
       /\ \A i \in 1..Len(SplitSlash(name)) :
              SplitSlash(name)[i] \notin {"", ".", ".."}


\* byte order of the characters that occur in the modelled names and texts
ByteOrder == " !#&()*-./0123456789:?ABCDEFGHIJKLMNOPQRSTUVWXYZ[]_abcdefghijklmnopqrstuvwxyz"

\* a < b as Go compares strings (byte-wise)
RECURSIVE StrLess(_, _)
StrLess(a, b) ==
    IF b = "" THEN FALSE
    ELSE IF a = "" THEN TRUE
    ELSE IF At(a, 0) = At(b, 0) THEN StrLess(From(a, 1), From(b, 1))
    ELSE IndexByte(ByteOrder, At(a, 0)) < IndexByte(ByteOrder, At(b, 0))

\* a finite set of strings as the sequence sorted by StrLess
RECURSIVE SortStrings(_)
SortStrings(S) ==
    IF S = {} THEN <<>>
    ELSE LET m == CHOOSE a \in S : \A b \in S \ {a} : StrLess(a, b)
         IN  <<m>> \o SortStrings(S \ {m})

\* path.Match on the patterns in use: '*' matches any run of non-slash
\* characters, '?' one non-slash character, any other character itself
RECURSIVE MatchFrom(_, _)
MatchFrom(pattern, name) ==
    IF pattern = "" THEN name = ""
    ELSE IF At(pattern, 0) = "*" THEN
        \E k \in 0..Len(name) :
            /\ IndexByte(SubSeq(name, 1, k), "/") < 0
            /\ MatchFrom(From(pattern, 1), From(name, k))
    ELSE IF name = "" THEN FALSE
    ELSE IF At(pattern, 0) = "?" THEN
        At(name, 0) # "/" /\ MatchFrom(From(pattern, 1), From(name, 1))
    ELSE At(pattern, 0) = At(name, 0) /\ MatchFrom(From(pattern, 1), From(name, 1))

\* path.Match reports ErrBadPattern: a '[' that no ']' closes
BadPattern(pattern) ==
    LET i == IndexByte(pattern, "[")
    IN  i >= 0 /\ IndexByte(From(pattern, i + 1), "]") < 0

\* ok of `ok, _ := path.Match(pat, name)`: false when Match reports an error
Match(pattern, name) == ~BadPattern(pattern) /\ MatchFrom(pattern, name)


(***************************************************************************)
(* Extraction: links (net/url) and heading slugs                           *)
(***************************************************************************)

Lower == "abcdefghijklmnopqrstuvwxyz"
Upper == "ABCDEFGHIJKLMNOPQRSTUVWXYZ"
Digits == "0123456789"

\* unicode.IsLetter, unicode.IsNumber, unicode.IsSpace, unicode.ToLower on
\* the characters of ByteOrder
IsLetter(c) == IndexByte(Lower, c) >= 0 \/ IndexByte(Upper, c) >= 0
IsNumber(c) == IndexByte(Digits, c) >= 0
IsSpace(c) == c = " "
ToLower(c) == IF IndexByte(Upper, c) >= 0 THEN At(Lower, IndexByte(Upper, c)) ELSE c

\* url.getScheme: <<scheme, rest, err>>
RECURSIVE getScheme(_, _)
getScheme(rawURL, i) ==
    IF i >= Len(rawURL) THEN <<"", rawURL, FALSE>>
    ELSE LET c == At(rawURL, i)
         IN  IF IsLetter(c) THEN getScheme(rawURL, i + 1)
             ELSE IF IsNumber(c) \/ c \in {"+", "-", "."} THEN
                 IF i = 0 THEN <<"", rawURL, FALSE>> ELSE getScheme(rawURL, i + 1)
             ELSE IF c = ":" THEN
                 IF i = 0 THEN <<"", "", TRUE>>
                 ELSE <<SubSeq(rawURL, 1, i), From(rawURL, i + 1), FALSE>>
             ELSE <<"", rawURL, FALSE>>

\* url.Parse after the scheme and the query are cut off: the authority
\* (after "//") and the path
parseAuthority(scheme, rest, err, frag) ==
    LET opaque == ~HasPrefix(rest, "/") /\ scheme # ""
        colonErr == /\ ~HasPrefix(rest, "/") /\ scheme = ""
                    /\ IndexByte(Head(SplitSlash(rest)), ":") >= 0
        hasAuth == (scheme # "" \/ ~HasPrefix(rest, "///")) /\ HasPrefix(rest, "//")
        cut == IndexByte(From(rest, 2), "/")
    IN  [err |-> err \/ colonErr,
         Scheme |-> scheme,
         Host |-> IF hasAuth /\ ~opaque
                  THEN (IF cut < 0 THEN From(rest, 2) ELSE SubSeq(rest, 3, cut + 2))
                  ELSE "",
         Path |-> IF opaque THEN ""
                  ELSE IF hasAuth THEN (IF cut < 0 THEN "" ELSE From(rest, cut + 2))
                  ELSE rest,
         Fragment |-> frag]

\* the part of s before the first c, s when there is none
Before(s, c) == IF IndexByte(s, c) < 0 THEN s ELSE SubSeq(s, 1, IndexByte(s, c))

\* the part of s after the first c, "" when there is none
After(s, c) == IF IndexByte(s, c) < 0 THEN "" ELSE From(s, IndexByte(s, c) + 1)

\* url.Parse after the scheme is cut off: sch is what getScheme returned
parseQuery(sch, frag) == parseAuthority(sch[1], Before(sch[2], "?"), sch[3], frag)

\* url.Parse, without percent-escapes and user info: the fragment is cut at
\* the first '#', then the scheme, the query, the authority and the path
ParseURL(raw) == parseQuery(getScheme(Before(raw, "#"), 0), After(raw, "#"))

\* a plausible slip: the host of the parsed url is not looked at
localOnlySchemeless(s, u) ==
    IF s = "" THEN [local |-> FALSE]
    ELSE IF u.err \/ u.Scheme # "" THEN [local |-> FALSE]
    ELSE IF u.Path = "" /\ u.Fragment = "" THEN [local |-> FALSE]
    ELSE [local |-> TRUE, Path |-> u.Path, Fragment |-> u.Fragment]

\* localLink on the parsed url u of s: local |-> FALSE stands for nil
localOnly(s, u) ==
    IF s = "" THEN [local |-> FALSE]
    ELSE IF u.err \/ u.Scheme # "" \/ u.Host # "" THEN [local |-> FALSE]
    ELSE IF u.Path = "" /\ u.Fragment = "" THEN [local |-> FALSE]
    ELSE [local |-> TRUE, Path |-> u.Path, Fragment |-> u.Fragment]

\* localLink: the parsed url only if the link is local and carries a path
\* or a fragment
localLink(s) == localOnly(s, ParseURL(s))

\* the character before or after position i of value is missing, a space or
\* punctuation
Boundary(value, i) ==
    i < 0 \/ i >= Len(value) \/ ~(IsLetter(At(value, i)) \/ IsNumber(At(value, i)))

\* the '_' at position i can open emphasis (left-flanking, not inside a word)
CanOpen(value, i) ==
    /\ At(value, i) = "_"
    /\ i + 1 < Len(value) /\ ~IsSpace(At(value, i + 1))
    /\ Boundary(value, i - 1)

\* the '_' at position i can close emphasis (right-flanking, not inside a word)
CanClose(value, i) ==
    /\ At(value, i) = "_"
    /\ i > 0 /\ ~IsSpace(At(value, i - 1))
    /\ Boundary(value, i + 1)

\* the '_' at position i is a delimiter of an emphasis node and not text
Delimiter(value, i) ==
    \/ CanOpen(value, i) /\ \E j \in (i + 1)..(Len(value) - 1) : CanClose(value, j)
    \/ CanClose(value, i) /\ \E j \in 0..(i - 1) : CanOpen(value, j)

\* the walk of textOnly over the inline nodes of value from position i: an
\* inline link [text](dest) contributes the text nodes of its text, the
\* delimiters of emphasis ('*', paired '_') contribute nothing
RECURSIVE textNodes(_, _)
textNodes(value, i) ==
    IF i >= Len(value) THEN ""
    ELSE LET c == At(value, i)
             close == IndexFrom(value, "]", i)
             paren == IF close >= 0 /\ At(value, close + 1) = "("
                      THEN IndexFrom(value, ")", close + 1) ELSE -1
         IN  IF c = "[" /\ paren >= 0
             THEN textNodes(SubSeq(value, i + 2, close), 0)
                      \o textNodes(value, paren + 1)
             ELSE IF c = "*" \/ Delimiter(value, i) THEN textNodes(value, i + 1)
             ELSE c \o textNodes(value, i + 1)

\* textOnly: the concatenated text nodes of a heading value
textOnly(value) == textNodes(value, 0)

\* a plausible slip: the whitespace character at the first position adds a
\* dash like any other
RECURSIVE slugLoopEverySpace(_, _)
slugLoopEverySpace(text, i) ==
    IF i >= Len(text) THEN ""
    ELSE LET r == At(text, i)
             keep == IF r = "-" \/ r = "_" THEN r
                     ELSE IF IsSpace(r) THEN "-"
                     ELSE IF IsLetter(r) \/ IsNumber(r) THEN ToLower(r)
                     ELSE ""
         IN  keep \o slugLoopEverySpace(text, i + 1)

\* a plausible slip: a whitespace character that follows another one adds
\* no dash
RECURSIVE slugLoopCollapsing(_, _)
slugLoopCollapsing(text, i) ==
    IF i >= Len(text) THEN ""
    ELSE LET r == At(text, i)
             keep == IF r = "-" \/ r = "_" THEN r
                     ELSE IF IsSpace(r) /\ i # 0 /\ ~IsSpace(At(text, i - 1)) THEN "-"
                     ELSE IF IsLetter(r) \/ IsNumber(r) THEN ToLower(r)
                     ELSE ""
         IN  keep \o slugLoopCollapsing(text, i + 1)

\* the loop of slugify over the characters of text, i the byte index
RECURSIVE slugLoop(_, _)
slugLoop(text, i) ==
    IF i >= Len(text) THEN ""
    ELSE LET r == At(text, i)
             keep == IF r = "-" \/ r = "_" THEN r
                     ELSE IF IsSpace(r) /\ i # 0 THEN "-"
                     ELSE IF IsLetter(r) \/ IsNumber(r) THEN ToLower(r)
                     ELSE ""
         IN  keep \o slugLoop(text, i + 1)

slugify(value) ==
    slugLoop(IF IndexByte(value, "]") >= 0 THEN textOnly(value) ELSE value, 0)

\* the number of candidates idGenerator.Generate tries
MaxCandidates == 100

\* the %d of fmt.Sprintf for i >= 0
RECURSIVE Itoa(_)
Itoa(i) == IF i < 10 THEN At(Digits, i) ELSE Itoa(i \div 10) \o At(Digits, i % 10)

\* the candidate of iteration i of the loop of idGenerator.Generate
candidate(name, i) == IF i = 0 THEN name ELSE name \o "-" \o Itoa(i)

\* the iterations among from..to whose candidate is not in gseen
unused(gseen, name, from, to) ==
    {i \in from..to : candidate(name, i) \notin gseen}

\* the least number of a non-empty set of numbers
Least(S) == CHOOSE i \in S : \A j \in S : i <= j

\* a plausible slip: the loop runs while i <= 100 and tries one more suffix
generateFromInclusive(gseen, name, i) ==
    IF unused(gseen, name, i, MaxCandidates) = {} THEN gseen
    ELSE gseen \cup {candidate(name, Least(unused(gseen, name, i, MaxCandidates)))}

\* the loop of idGenerator.Generate from iteration i on: the seen set after
\* the first unused candidate among name, name-1, name-2, ... is added (the
\* loop returns at the least i < 100 whose candidate is unused), unchanged
\* when none is
generateFrom(gseen, name, i) ==
    IF unused(gseen, name, i, MaxCandidates - 1) = {} THEN gseen
    ELSE gseen \cup {candidate(name, Least(unused(gseen, name, i, MaxCandidates - 1)))}

\* idGenerator.Generate for a heading: g.seen after the call
Generate(gseen, value) ==
    IF Len(value) = 0 THEN gseen ELSE generateFrom(gseen, slugify(value), 0)

\* idgen.seen after the parser has met the headings in document order:
\* first those of the front half, then, from the set these leave (g.seen
\* only grows), those of the rest
RECURSIVE headingIDs(_, _)
headingIDs(gseen, headings) ==
    IF headings = <<>> THEN gseen
    ELSE IF Len(headings) = 1 THEN Generate(gseen, headings[1])
    ELSE LET front == headingIDs(gseen, SubSeq(headings, 1, Len(headings) \div 2))
         IN  IF gseen \subseteq front
             THEN headingIDs(front, SubSeq(headings, Len(headings) \div 2 + 1,
                                           Len(headings)))
             ELSE front

\* what fn appends to localLinks for link node n with u = localLink(n.dest)
appendLink(n, u) ==
    IF u.local /\ n.dest # ""
    THEN <<[Raw |-> n.dest, Path |-> u.Path, Fragment |-> u.Fragment,
            LineStart |-> n.l1, LineEnd |-> n.l2]>>
    ELSE <<>>

\* localLinks after the walk over the link, image and auto-link nodes of
\* the document, in document order
RECURSIVE walkLinks(_)
walkLinks(nodes) ==
    IF nodes = <<>> THEN <<>>
    ELSE appendLink(Head(nodes), localLink(Head(nodes).dest)) \o walkLinks(Tail(nodes))

\* extractDocDetails on a parsed body: body.headings are the heading values
\* and body.nodes the link nodes (destination, line span of the enclosing
\* block) that the markdown parser finds in the bytes
extractDocDetails(body) ==
    [anchors |-> headingIDs({}, body.headings), links |-> walkLinks(body.nodes)]


(***************************************************************************)
(* CheckFS                                                                 *)
(***************************************************************************)

VARIABLES
    fsys,         \* the file system scanned: path -> entry
    pat,          \* the name pattern
    pc,           \* "start", "walk" (in fs.WalkDir), "links" (in the loop over
                  \* docMeta.links), "done"
    queue,        \* the paths fs.WalkDir has still to hand to fn, in order
    file,         \* p of the running fn call
    idx,          \* position of the loop over docMeta.links (1-based)
    seen,         \* the cache: path -> docDetails
    brokenLinks,  \* the accumulated []BrokenLink
    result,       \* what CheckFS returns
    requests,     \* history: the paths getFileMeta was called on, in order
    reads,        \* history: the paths fs.ReadFile was called on, in order
    parses,       \* history: the paths extractDocDetails ran for, in order
    checked,      \* history: <<file, position>> of the loop iterations run
    runs,         \* history: the calls of CheckFS that returned before this one
    document,     \* extractDocDetails: the body it was called on
    phase,        \* "parse" (in mdparser.Parse), "walk" (in ast.Walk), "done"
    cursor,       \* the heading or link node the parser or the walk is at
    idgen,        \* idgen.seen
    ids,          \* history: what idgen.Generate returned, call by call
    localLinks,   \* the accumulated []LinkInfo
    details       \* what extractDocDetails returns

\* the state of one extractDocDetails call
extraction == <<document, phase, cursor, idgen, ids, localLinks, details>>

vars == <<fsys, pat, pc, queue, file, idx, seen, brokenLinks, result,
          requests, reads, parses, checked, runs, extraction>>

kindFileNotExists == 0
kindBrokenInternalAnchor == 1
kindBrokenExternalAnchor == 2

\* exists: fsys.Open succeeds. An fs.FS rejects names that are not
\* fs.ValidPath, and opens files and directories alike.
exists(fs, name) ==
    /\ ValidPath(name)
    /\ name \in DOMAIN fs
    /\ fs[name].kind # "absent"

\* fs.ReadFile: fails when the name cannot be opened, is a directory or
\* cannot be read
ReadFile(fs, name) ==
    IF ~exists(fs, name) THEN [err |-> "not exist"]
    ELSE IF fs[name].kind = "dir" THEN [err |-> "is a directory"]
    ELSE IF fs[name].readerr THEN [err |-> "read error"]
    ELSE [err |-> "", b |-> fs[name].body]

\* getFileMeta once extractDocDetails returned docMeta: it is stored
storeMeta(cache, name, docMeta) ==
    [err |-> "", docMeta |-> docMeta, seen |-> (name :> docMeta) @@ cache,
     read |-> TRUE, parsed |-> TRUE]

\* a plausible slip: one idGenerator serves all documents of the scan, so
\* the ids of a document avoid those of the documents extracted before it
readMetaSharedIDs(cache, name, r) ==
    IF r.err # ""
    THEN [err |-> r.err, seen |-> cache, read |-> TRUE, parsed |-> FALSE]
    ELSE IF ~r.b.utf8
    THEN [err |-> "not a valid utf8 file", seen |-> cache,
          read |-> TRUE, parsed |-> FALSE]
    ELSE storeMeta(cache, name,
             [anchors |-> headingIDs(UNION {cache[n].anchors : n \in DOMAIN cache},
                                     r.b.headings),
              links |-> walkLinks(r.b.nodes)])

\* getFileMeta past the cache lookup, r the result of fs.ReadFile
readMeta(cache, name, r) ==
    IF r.err # ""
    THEN [err |-> r.err, seen |-> cache, read |-> TRUE, parsed |-> FALSE]
    ELSE IF ~r.b.utf8
    THEN [err |-> "not a valid utf8 file", seen |-> cache,
          read |-> TRUE, parsed |-> FALSE]
    ELSE storeMeta(cache, name, extractDocDetails(r.b))

\* a plausible slip: the cache is not consulted, every request reads the file
getFileMetaUncached(cache, fs, name) == readMeta(cache, name, ReadFile(fs, name))

\* getFileMeta: err, the document, the cache after the call, and whether
\* the file was read and whether it was parsed
getFileMeta(cache, fs, name) ==
    IF name \in DOMAIN cache
    THEN [err |-> "", docMeta |-> cache[name], seen |-> cache,
          read |-> FALSE, parsed |-> FALSE]
    ELSE readMeta(cache, name, ReadFile(fs, name))

\* a plausible slip: a rooted link is resolved against the directory of the
\* document, like any other
srelFromDocument(name, s) ==
    IF s.Path # "" THEN Join(TrimSuffix(name, Base(name)), s.Path) ELSE ""

\* srel: the fs.FS relative path that link s of document name points to
srel(name, s) ==
    IF s.Path # "" /\ At(s.Path, 0) = "/" THEN From(s.Path, 1)
    ELSE IF s.Path # "" THEN Join(TrimSuffix(name, Base(name)), s.Path)
    ELSE ""

\* a loop iteration that calls nothing and appends nothing
Quiet(target) == [broken |-> <<>>, called |-> FALSE, err |-> "", target |-> target]

\* a loop iteration that appends one BrokenLink without calling getFileMeta
Broken(target, name, s, kind) ==
    [broken |-> <<[File |-> name, Link |-> s, kind |-> kind]>>,
     called |-> FALSE, err |-> "", target |-> target]

\* the end of a loop iteration, m the result of getFileMeta(srel)
checkAnchor(name, s, target, m) ==
    IF m.err # ""
    THEN [broken |-> <<>>, called |-> TRUE, meta |-> m, err |-> m.err,
          target |-> target]
    ELSE IF s.Fragment \notin m.docMeta.anchors
    THEN [broken |-> <<[File |-> name, Link |-> s,
                        kind |-> kindBrokenExternalAnchor]>>,
          called |-> TRUE, meta |-> m, err |-> "", target |-> target]
    ELSE [broken |-> <<>>, called |-> TRUE, meta |-> m, err |-> "", target |-> target]

\* a plausible slip: the link as written, with its '#', is looked up
internalBrokenRaw(docMeta, s) ==
    s.Path = "" /\ s.Fragment # "" /\ s.Raw \notin docMeta.anchors

\* the link is internal and its fragment is not an anchor of its document
internalBroken(docMeta, s) ==
    s.Path = "" /\ s.Fragment # "" /\ s.Fragment \notin docMeta.anchors

\* a plausible slip: the name of the target is not matched against the pattern
skipAnchorAnyName(pattern, target, s) == target = "" \/ s.Fragment = ""

\* the fragment of the link is not looked up in another document
skipAnchor(pattern, target, s) ==
    \/ target = "" \/ s.Fragment = ""
    \/ ~Match(pattern, Base(target))

\* a plausible slip: the existence check does not test srel != "" first
resolveEmptyChecked(cache, fs, pattern, name, docMeta, s, target) ==
    IF ~exists(fs, target) /\ s.Path # ""
    THEN Broken(target, name, s, kindFileNotExists)
    ELSE IF internalBroken(docMeta, s)
    THEN Broken(target, name, s, kindBrokenInternalAnchor)
    ELSE IF skipAnchor(pattern, target, s) THEN Quiet(target)
    ELSE checkAnchor(name, s, target, getFileMeta(cache, fs, target))

\* a plausible slip: the continue after the append is missing, and the
\* fragment of a link to a missing file is looked up as well
resolveNoContinue(cache, fs, pattern, name, docMeta, s, target) ==
    IF target # "" /\ ~exists(fs, target) /\ skipAnchor(pattern, target, s)
    THEN Broken(target, name, s, kindFileNotExists)
    ELSE IF target # "" /\ ~exists(fs, target)
    THEN [checkAnchor(name, s, target, getFileMeta(cache, fs, target)) EXCEPT
              !.broken = <<[File |-> name, Link |-> s, kind |-> kindFileNotExists]>> \o @]
    ELSE IF internalBroken(docMeta, s)
    THEN Broken(target, name, s, kindBrokenInternalAnchor)
    ELSE IF skipAnchor(pattern, target, s) THEN Quiet(target)
    ELSE checkAnchor(name, s, target, getFileMeta(cache, fs, target))

\* one iteration of the loop over docMeta.links, target its srel
resolve(cache, fs, pattern, name, docMeta, s, target) ==
    IF target # "" /\ ~exists(fs, target)
    THEN Broken(target, name, s, kindFileNotExists)
    ELSE IF internalBroken(docMeta, s)
    THEN Broken(target, name, s, kindBrokenInternalAnchor)
    ELSE IF skipAnchor(pattern, target, s) THEN Quiet(target)
    ELSE checkAnchor(name, s, target, getFileMeta(cache, fs, target))

\* one iteration of the loop over docMeta.links: what is appended to
\* brokenLinks, the getFileMeta call made (none: called |-> FALSE) and the
\* error fn returns ("" for none)
checkLink(cache, fs, pattern, name, docMeta, s) ==
    resolve(cache, fs, pattern, name, docMeta, s, srel(name, s))

\* path.Dir of a cleaned relative path
Dir(name) ==
    LET elems == SplitSlash(name)
    IN  IF Len(elems) <= 1 THEN "."
        ELSE JoinSlash(SubSeq(elems, 1, Len(elems) - 1))

\* fs.ReadDir: the paths of the entries of directory dir, sorted by name
ReadDir(fs, dir) ==
    LET names == {Base(q) : q \in {n \in DOMAIN fs :
                      n # "." /\ fs[n].kind # "absent" /\ Dir(n) = dir}}
        sorted == SortStrings(names)
    IN  [k \in 1..Len(sorted) |-> Join(dir, sorted[k])]

Running == [kind |-> "running", Links |-> <<>>, err |-> ""]
Failed(e) == [kind |-> "error", Links |-> <<>>, err |-> e]


(***************************************************************************)
(* The file systems and patterns scanned                                   *)
(***************************************************************************)

\* the most link nodes in the document a.md
MaxLinks == 2

\* a document whose k-th link node has destination dests[k] and sits alone
\* in a paragraph on line 2k+1
Body(headings, dests) ==
    [utf8 |-> TRUE, headings |-> headings,
     nodes |-> [k \in 1..Len(dests) |->
                   [dest |-> dests[k], l1 |-> 2 * k + 1, l2 |-> 2 * k + 1]]]

\* bytes that are not valid UTF-8
Binary == [utf8 |-> FALSE, headings |-> <<>>, nodes |-> <<>>]

DirEntry(readerr) == [kind |-> "dir", readerr |-> readerr]
FileEntry(body) == [kind |-> "file", readerr |-> FALSE, body |-> body]
Unreadable == [kind |-> "file", readerr |-> TRUE, body |-> Binary]
Absent == [kind |-> "absent"]

HeadingLists == {<<>>, <<"Hi!">>}

\* link destinations written in a.md
Dests ==
    {"#hi", "b.md#hi", "img.png#hi", "/sub/../b.md", "/"}

SeqsUpTo(S, n) == UNION {[1..k -> S] : k \in 0..n}

EntriesA ==
    {FileEntry(Body(h, d)) : h \in HeadingLists, d \in SeqsUpTo(Dests, MaxLinks)}
        \cup {FileEntry(Binary)}

PlainB == FileEntry(Body(<<"Hi!">>, <<>>))

EntriesB ==
    {Absent, Unreadable, FileEntry(Binary), PlainB,
     FileEntry(Body(<<>>, <<"#hi", "nope.md">>)),
     FileEntry(Body(<<"Hi!">>, <<"a.md#hi">>))}

PlainC == FileEntry(Body(<<"Hi!", "Hi!">>, <<"/b.md", "../b.md">>))

EntriesC ==
    {PlainC,
     FileEntry(Body(<<"Hi!", "Hi!">>, <<"b.md#hi", "../b.md#hi">>)),
     FileEntry(Body(<<"Hi!", "Hi!">>, <<"c.md#hi-1", "#hi-2">>)),
     FileEntry(Body(<<"Hi!">>, <<"/#nope", "/">>))}

GoodPattern == "*.md"

Patterns == {GoodPattern, "*.md[", "[*.md"}

FileSystem(a, b, c, direrr) ==
    [n \in {".", ".git", ".git/g.md", "a.md", "b.md", "img.png", "sub",
            "sub/.git", "sub/.git/h.md", "sub/c.md", "zz"} |->
        CASE n = "." -> DirEntry(FALSE)
          [] n = ".git" -> DirEntry(FALSE)
          [] n = ".git/g.md" -> FileEntry(Body(<<>>, <<"nope.md">>))
          [] n = "a.md" -> a
          [] n = "b.md" -> b
          [] n = "img.png" -> FileEntry(Binary)
          [] n = "sub" -> DirEntry(FALSE)
          [] n = "sub/.git" -> DirEntry(FALSE)
          [] n = "sub/.git/h.md" -> FileEntry(Body(<<>>, <<"#nope">>))
          [] n = "sub/c.md" -> c
          [] n = "zz" -> DirEntry(direrr)]

\* no extractDocDetails call is followed step by step
NotExtracting ==
    /\ document = Body(<<>>, <<>>)
    /\ phase = "idle"
    /\ cursor = 0
    /\ idgen = {}
    /\ ids = <<>>
    /\ localLinks = <<>>
    /\ details = [anchors |-> {}, links |-> <<>>]

Init ==
    /\ pat \in Patterns
    /\ \E a \in EntriesA, b \in EntriesB, c \in EntriesC, direrr \in BOOLEAN :
           /\ (direrr \/ pat # GoodPattern) => (b = PlainB /\ c = PlainC)
           /\ fsys = FileSystem(a, b, c, direrr)
    /\ pc = "start"
    /\ queue = <<>>
    /\ file = ""
    /\ idx = 0
    /\ seen = <<>>
    /\ brokenLinks = <<>>
    /\ result = Running
    /\ requests = <<>>
    /\ reads = <<>>
    /\ parses = <<>>
    /\ checked = <<>>
    /\ runs = <<>>
    /\ NotExtracting

(***************************************************************************)
(* The steps of CheckFS                                                    *)
(***************************************************************************)

\* history of a getFileMeta call
Logged(m, name) ==
    /\ requests' = Append(requests, name)
    /\ reads' = IF m.read THEN Append(reads, name) ELSE reads
    /\ parses' = IF m.parsed THEN Append(parses, name) ELSE parses

\* the pattern is malformed: CheckFS returns the error of path.Match
RejectPattern ==
    /\ pc = "start"
    /\ BadPattern(pat)
    /\ pc' = "done"
    /\ result' = Failed("syntax error in pattern")
    /\ UNCHANGED <<runs, extraction, fsys, pat, queue, file, idx, seen, brokenLinks, requests, reads,
                   parses, checked>>

\* a plausible slip: the pattern is not tried before the walk, whose fn
\* ignores the error of path.Match
StartWalkUnchecked ==
    /\ pc = "start"
    /\ pc' = "walk"
    /\ queue' = <<".">>
    /\ UNCHANGED <<runs, extraction, fsys, pat, file, idx, seen, brokenLinks, result,
                   requests, reads, parses, checked>>

\* fs.WalkDir is entered with the root "."
StartWalk ==
    /\ pc = "start"
    /\ ~BadPattern(pat)
    /\ pc' = "walk"
    /\ queue' = <<".">>
    /\ UNCHANGED <<runs, extraction, fsys, pat, file, idx, seen, brokenLinks, result, requests, reads,
                   parses, checked>>

\* a plausible slip: fn returns nil for the directory, which is then read
\* like any other
SkipGitEntered ==
    /\ pc = "walk" /\ queue # <<>>
    /\ fsys[Head(queue)].kind = "dir" /\ Base(Head(queue)) = ".git"
    /\ queue' = ReadDir(fsys, Head(queue)) \o Tail(queue)
    /\ UNCHANGED <<runs, extraction, fsys, pat, pc, file, idx, seen, brokenLinks, result,
                   requests, reads, parses, checked>>

\* fn on a directory named .git: fs.SkipDir
SkipGit ==
    /\ pc = "walk" /\ queue # <<>>
    /\ fsys[Head(queue)].kind = "dir" /\ Base(Head(queue)) = ".git"
    /\ queue' = Tail(queue)
    /\ UNCHANGED <<runs, extraction, fsys, pat, pc, file, idx, seen, brokenLinks, result, requests, reads,
                   parses, checked>>

\* fn on any other directory returns nil and fs.WalkDir reads it
EnterDir ==
    /\ pc = "walk" /\ queue # <<>>
    /\ fsys[Head(queue)].kind = "dir" /\ Base(Head(queue)) # ".git"
    /\ ~fsys[Head(queue)].readerr
    /\ queue' = ReadDir(fsys, Head(queue)) \o Tail(queue)
    /\ UNCHANGED <<runs, extraction, fsys, pat, pc, file, idx, seen, brokenLinks, result, requests, reads,
                   parses, checked>>

\* the directory cannot be read: fs.WalkDir calls fn again with the error,
\* fn returns it and the walk ends
DirError ==
    /\ pc = "walk" /\ queue # <<>>
    /\ fsys[Head(queue)].kind = "dir" /\ Base(Head(queue)) # ".git"
    /\ fsys[Head(queue)].readerr
    /\ pc' = "done"
    /\ result' = Failed("read error")
    /\ UNCHANGED <<runs, extraction, fsys, pat, queue, file, idx, seen, brokenLinks, requests, reads,
                   parses, checked>>

\* fn on a file whose name does not match the pattern
SkipFile ==
    /\ pc = "walk" /\ queue # <<>>
    /\ fsys[Head(queue)].kind = "file"
    /\ ~Match(pat, Base(Head(queue)))
    /\ queue' = Tail(queue)
    /\ UNCHANGED <<runs, extraction, fsys, pat, pc, file, idx, seen, brokenLinks, result, requests, reads,
                   parses, checked>>

\* a plausible slip: a file that cannot be read or decoded is skipped and
\* the walk goes on
OpenedOrSkipped(m) ==
    /\ seen' = m.seen
    /\ Logged(m, Head(queue))
    /\ IF m.err # ""
       THEN /\ queue' = Tail(queue)
            /\ UNCHANGED <<pc, file, idx>>
       ELSE /\ file' = Head(queue)
            /\ idx' = 1
            /\ queue' = Tail(queue)
            /\ pc' = "links"
    /\ UNCHANGED <<runs, extraction, fsys, pat, brokenLinks, result, checked>>

\* fn after getFileMeta(p) returned m: the error is returned, or the loop
\* over docMeta.links starts
Opened(m) ==
    /\ seen' = m.seen
    /\ Logged(m, Head(queue))
    /\ IF m.err # ""
       THEN /\ result' = Failed(m.err)
            /\ pc' = "done"
            /\ UNCHANGED <<queue, file, idx>>
       ELSE /\ file' = Head(queue)
            /\ idx' = 1
            /\ queue' = Tail(queue)
            /\ pc' = "links"
            /\ UNCHANGED result
    /\ UNCHANGED <<runs, extraction, fsys, pat, brokenLinks, checked>>

\* fn on a matching file: getFileMeta, then the loop over its links
OpenFile ==
    /\ pc = "walk" /\ queue # <<>>
    /\ fsys[Head(queue)].kind = "file"
    /\ Match(pat, Base(Head(queue)))
    /\ Opened(getFileMeta(seen, fsys, Head(queue)))

\* a plausible slip: the new BrokenLink is put in front of the list
CheckedInFront(o) ==
    /\ brokenLinks' = o.broken \o brokenLinks
    /\ IF o.called
       THEN seen' = o.meta.seen /\ Logged(o.meta, o.target)
       ELSE UNCHANGED <<seen, requests, reads, parses>>
    /\ checked' = Append(checked, <<file, idx>>)
    /\ IF o.err # ""
       THEN /\ result' = Failed(o.err)
            /\ pc' = "done"
            /\ UNCHANGED idx
       ELSE /\ idx' = idx + 1
            /\ UNCHANGED <<pc, result>>
    /\ UNCHANGED <<runs, extraction, fsys, pat, queue, file>>

\* a plausible slip: a violation ends the loop over the links of the file
CheckedUntilBroken(o) ==
    /\ brokenLinks' = brokenLinks \o o.broken
    /\ IF o.called
       THEN seen' = o.meta.seen /\ Logged(o.meta, o.target)
       ELSE UNCHANGED <<seen, requests, reads, parses>>
    /\ checked' = Append(checked, <<file, idx>>)
    /\ IF o.err # ""
       THEN /\ result' = Failed(o.err)
            /\ pc' = "done"
            /\ UNCHANGED idx
       ELSE /\ idx' = IF o.broken # <<>> THEN Len(seen[file].links) + 1 ELSE idx + 1
            /\ UNCHANGED <<pc, result>>
    /\ UNCHANGED <<runs, extraction, fsys, pat, queue, file>>

\* the state after a loop iteration with outcome o: fn returns the error of
\* getFileMeta, or the loop goes on
Checked(o) ==
    /\ brokenLinks' = brokenLinks \o o.broken
    /\ IF o.called
       THEN seen' = o.meta.seen /\ Logged(o.meta, o.target)
       ELSE UNCHANGED <<seen, requests, reads, parses>>
    /\ checked' = Append(checked, <<file, idx>>)
    /\ IF o.err # ""
       THEN /\ result' = Failed(o.err)
            /\ pc' = "done"
            /\ UNCHANGED idx
       ELSE /\ idx' = idx + 1
            /\ UNCHANGED <<pc, result>>
    /\ UNCHANGED <<runs, extraction, fsys, pat, queue, file>>

\* one iteration of the loop over docMeta.links
CheckLink ==
    /\ pc = "links"
    /\ idx <= Len(seen[file].links)
    /\ Checked(checkLink(seen, fsys, pat, file, seen[file], seen[file].links[idx]))

\* the loop is over: fn returns nil
CloseFile ==
    /\ pc = "links"
    /\ idx > Len(seen[file].links)
    /\ pc' = "walk"
    /\ UNCHANGED <<runs, extraction, fsys, pat, queue, file, idx, seen, brokenLinks, result,
                   requests, reads, parses, checked>>

\* a plausible slip: the length of brokenLinks is not tested
ReturnUntested ==
    /\ pc = "walk" /\ queue = <<>>
    /\ pc' = "done"
    /\ result' = [kind |-> "BrokenLinksError", Links |-> brokenLinks, err |-> ""]
    /\ UNCHANGED <<runs, extraction, fsys, pat, queue, file, idx, seen, brokenLinks, requests,
                   reads, parses, checked>>

\* fs.WalkDir returned nil: nil, or the BrokenLinksError
Return ==
    /\ pc = "walk" /\ queue = <<>>
    /\ pc' = "done"
    /\ result' = IF Len(brokenLinks) # 0
                 THEN [kind |-> "BrokenLinksError", Links |-> brokenLinks, err |-> ""]
                 ELSE [kind |-> "nil", Links |-> <<>>, err |-> ""]
    /\ UNCHANGED <<runs, extraction, fsys, pat, queue, file, idx, seen, brokenLinks, requests, reads,
                   parses, checked>>

Next ==
    \/ RejectPattern
    \/ StartWalk
    \/ SkipGit
    \/ EnterDir
    \/ DirError
    \/ SkipFile
    \/ OpenFile
    \/ CheckLink
    \/ CloseFile
    \/ Return

Spec == Init /\ [][Next]_vars


(***************************************************************************)
(* CheckFS called again                                                    *)
(***************************************************************************)

\* the most calls of CheckFS in a row
MaxScans == 2

\* link destinations written in a.md of the trees scanned more than once
RescanDests == {"#hi", "b.md#hi", "/sub/../b.md"}

RescanA ==
    {FileEntry(Body(h, d)) : h \in HeadingLists, d \in SeqsUpTo(RescanDests, MaxLinks)}
        \cup {FileEntry(Binary)}

RescanB == {Absent, PlainB, FileEntry(Body(<<>>, <<"#hi", "nope.md">>))}

RescanC == {PlainC, FileEntry(Body(<<"Hi!", "Hi!">>, <<"b.md#hi", "../b.md#hi">>))}

InitRescan ==
    /\ pat \in Patterns
    /\ \E a \in RescanA, b \in RescanB, c \in RescanC, direrr \in BOOLEAN :
           /\ (direrr \/ pat # GoodPattern) => (b = PlainB /\ c = PlainC)
           /\ fsys = FileSystem(a, b, c, direrr)
    /\ pc = "start"
    /\ queue = <<>>
    /\ file = ""
    /\ idx = 0
    /\ seen = <<>>
    /\ brokenLinks = <<>>
    /\ result = Running
    /\ requests = <<>>
    /\ reads = <<>>
    /\ parses = <<>>
    /\ checked = <<>>
    /\ runs = <<>>
    /\ NotExtracting

\* a plausible slip: brokenLinks is a variable of the package and keeps
\* the entries of the call before
NewCallKeepingLinks(fs) ==
    /\ runs' = Append(runs, [fsys |-> fsys, pat |-> pat, result |-> result])
    /\ fsys' = fs
    /\ pc' = "start"
    /\ queue' = <<>>
    /\ file' = ""
    /\ idx' = 0
    /\ seen' = <<>>
    /\ result' = Running
    /\ requests' = <<>> /\ reads' = <<>> /\ parses' = <<>> /\ checked' = <<>>
    /\ UNCHANGED <<pat, brokenLinks, extraction>>

\* CheckFS is entered on file system fs after the call before returned:
\* seen and brokenLinks are new variables of the call
NewCall(fs) ==
    /\ runs' = Append(runs, [fsys |-> fsys, pat |-> pat, result |-> result])
    /\ fsys' = fs
    /\ pc' = "start"
    /\ queue' = <<>>
    /\ file' = ""
    /\ idx' = 0
    /\ seen' = <<>>
    /\ brokenLinks' = <<>>
    /\ result' = Running
    /\ requests' = <<>> /\ reads' = <<>> /\ parses' = <<>> /\ checked' = <<>>
    /\ UNCHANGED <<pat, extraction>>

\* the caller scans the same tree once more
CallAgain ==
    /\ pc = "done" /\ Len(runs) + 1 < MaxScans
    /\ NewCall(fsys)

\* the caller writes the missing b.md, "## Hi!", and scans the tree once more
CreateMissing ==
    /\ pc = "done" /\ Len(runs) + 1 < MaxScans
    /\ fsys["b.md"].kind = "absent"
    /\ NewCall([fsys EXCEPT !["b.md"] = PlainB])

NextRescan ==
    \/ Next
    \/ CallAgain
    \/ CreateMissing

SpecRescan == InitRescan /\ [][NextRescan]_vars


(***************************************************************************)
(* extractDocDetails, step by step                                         *)
(***************************************************************************)

\* the state of a CheckFS call
scan == <<fsys, pat, pc, queue, file, idx, seen, brokenLinks, result,
          requests, reads, parses, checked, runs>>

\* no CheckFS call is running
NotScanning ==
    /\ fsys = <<>> /\ pat = GoodPattern
    /\ pc = "idle" /\ queue = <<>> /\ file = "" /\ idx = 0
    /\ seen = <<>> /\ brokenLinks = <<>> /\ result = Running
    /\ requests = <<>> /\ reads = <<>> /\ parses = <<>> /\ checked = <<>>
    /\ runs = <<>>

\* the most headings of a document whose headings are chosen among the
\* colliding ones
MaxTexts == 2

\* the headings of the longest document, which all have one base slug
MaxHeadings == 101

\* heading values, as the parser hands them to idgen.Generate
Texts ==
    {"", "!!!", "Hi!", "hi", "Foo Bar", "Foo  Bar", " Foo", "& Co",
     "-Client-Side", "_foo_bar", "Foo/Bar", "Foo (Bar)",
     "A [Link](https://example.org/) Inside",
     "A [Link](https://example.org/) _Inside_",
     "Header *with formatting*", "Header _with formatting_",
     "Header with & symbol",
     "Punctuation,   and    repeating:  spaces"}

\* destinations of the link, image and auto-link nodes
NodeDests ==
    {"", "#hi", "a.md", "b.md#hi", "/", "?q=1",
     "https://example.org/", "http://example.org/a.md#hi",
     "mailto:joe@example.org", "//example.org/a.md"}

\* n headings with the base slug "hi", written in two ways
Repeated(n) == [k \in 1..n |-> IF k % 2 = 1 THEN "Hi!" ELSE "hi"]

\* heading values that have a base slug in common, or none
Colliding == {"", "!!!", "Hi!", "hi", "Foo Bar", "Foo (Bar)"}

\* the documents extracted
Inputs ==
    {Body(<<h>>, <<>>) : h \in Texts}
        \cup {Body(h, <<>>) : h \in SeqsUpTo(Colliding, MaxTexts)}
        \cup {Body(<<>>, d) : d \in SeqsUpTo(NodeDests, MaxLinks)}
        \cup {Body(Repeated(MaxHeadings), <<>>),
              Body(<<"Hi!", "Hi!", "Hi! 1">>, <<>>),
              Body(<<"Hi!">>, <<"https://example.org/", "mailto:joe@example.org",
                                "//example.org/a.md", "b.md#hi">>)}

\* extractDocDetails is entered: idgen := new(idGenerator), no links yet
InitExtract ==
    /\ NotScanning
    /\ document \in Inputs
    /\ phase = "parse"
    /\ cursor = 1
    /\ idgen = {}
    /\ ids = <<>>
    /\ localLinks = <<>>
    /\ details = [anchors |-> {}, links |-> <<>>]

\* what idgen.Generate returned, given g.seen before and after the call:
\* <<>> stands for nil
returned(before, after) ==
    IF after = before THEN <<>> ELSE <<CHOOSE c \in after \ before : TRUE>>

\* mdparser.Parse closes a heading and asks idgen for its id
ParseHeading ==
    /\ phase = "parse" /\ cursor <= Len(document.headings)
    /\ idgen' = Generate(idgen, document.headings[cursor])
    /\ ids' = Append(ids, returned(idgen, idgen'))
    /\ cursor' = cursor + 1
    /\ UNCHANGED <<scan, document, phase, localLinks, details>>

\* mdparser.Parse returned: ast.Walk starts
Parsed ==
    /\ phase = "parse" /\ cursor > Len(document.headings)
    /\ phase' = "walk"
    /\ cursor' = 1
    /\ UNCHANGED <<scan, document, idgen, ids, localLinks, details>>

\* fn of ast.Walk enters a link, image or auto-link node
VisitLink ==
    /\ phase = "walk" /\ cursor <= Len(document.nodes)
    /\ localLinks' = localLinks \o appendLink(document.nodes[cursor],
                                              localLink(document.nodes[cursor].dest))
    /\ cursor' = cursor + 1
    /\ UNCHANGED <<scan, document, phase, idgen, ids, details>>

\* ast.Walk returned: extractDocDetails returns the docDetails
ReturnDetails ==
    /\ phase = "walk" /\ cursor > Len(document.nodes)
    /\ details' = [anchors |-> idgen, links |-> localLinks]
    /\ phase' = "done"
    /\ UNCHANGED <<scan, document, cursor, idgen, ids, localLinks>>

NextExtract ==
    \/ ParseHeading
    \/ Parsed
    \/ VisitLink
    \/ ReturnDetails

SpecExtract == InitExtract /\ [][NextExtract]_vars

\* the steps return what extractDocDetails computes at once
StepwiseAgrees == phase = "done" => details = extractDocDetails(document)


(***************************************************************************)
(* Properties                                                              *)
(***************************************************************************)

\* the document that the bytes of file name hold, computed from the file
\* system alone
DocOf(name) == extractDocDetails(fsys[name].body)

\* the path names an entry of the scanned tree once its "." and ".."
\* elements are resolved; the empty path is the root
Present(path) ==
    /\ Clean(path) \in DOMAIN fsys
    /\ fsys[Clean(path)].kind # "absent"

\* the loop over docMeta.links is about to run the iteration for a link
AtLink == pc = "links" /\ idx <= Len(seen[file].links)

\* the link of that iteration
Link == seen[file].links[idx]

\* the BrokenLink of that iteration, of the kind given
Violation(kind) == [File |-> file, Link |-> Link, kind |-> kind]

\* the iteration consults no document
NoFetch ==
    /\ seen' = seen /\ requests' = requests
    /\ reads' = reads /\ parses' = parses

\* C1: a link with a non-empty path whose candidate path names no entry of
\* the tree gets exactly one FileNotFound, appended last; no other violation
\* is appended with it, no document is fetched through the cache, and the
\* loop goes on to the next link, whatever the fragment of the link is.
C1_FileNotFoundStops ==
    [][(AtLink /\ Link.Path # "" /\ ~Present(srel(file, Link)))
          => /\ brokenLinks' = Append(brokenLinks, Violation(kindFileNotExists))
             /\ NoFetch
             /\ idx' = idx + 1 /\ pc' = "links"]_vars

\* C1 happens: a link with a fragment to a missing file whose name matches
\* the pattern has been recorded as FileNotFound
C1_Witness ==
    /\ pc = "links" /\ idx > 1 /\ brokenLinks # <<>>
    /\ LET s == seen[file].links[idx - 1]
       IN  /\ s.Path # "" /\ s.Fragment # ""
           /\ ~Present(srel(file, s))
           /\ Match(pat, Base(srel(file, s)))
           /\ brokenLinks[Len(brokenLinks)] =
                  [File |-> file, Link |-> s, kind |-> kindFileNotExists]

\* C2: for a link with an empty path and a non-empty fragment,
\* InternalAnchorNotFound is appended if and only if the fragment is not an
\* anchor of the document that holds the link; no other document is
\* consulted.
C2_InternalAnchor ==
    [][(AtLink /\ Link.Path = "" /\ Link.Fragment # "")
          => /\ brokenLinks' =
                    IF Link.Fragment \in DocOf(file).anchors THEN brokenLinks
                    ELSE Append(brokenLinks, Violation(kindBrokenInternalAnchor))
             /\ NoFetch]_vars

\* C2 happens both ways: an internal link was recorded as broken although
\* another cached document has the anchor, and an internal link to an
\* anchor of its own document was passed
C2_Witness ==
    /\ pc = "links" /\ idx > 2
    /\ LET s == seen[file].links[idx - 1]
           t == seen[file].links[idx - 2]
       IN  /\ s.Path = "" /\ s.Fragment # ""
           /\ s.Fragment \notin seen[file].anchors
           /\ \E other \in DOMAIN seen : s.Fragment \in seen[other].anchors
           /\ brokenLinks[Len(brokenLinks)] =
                  [File |-> file, Link |-> s, kind |-> kindBrokenInternalAnchor]
           /\ t.Path # ""

\* C2 happens the other way: an internal link to an anchor of its own
\* document was passed without a violation
C2_WitnessFound ==
    /\ pc = "links" /\ idx > 1
    /\ LET s == seen[file].links[idx - 1]
       IN  s.Path = "" /\ s.Fragment \in seen[file].anchors
    /\ brokenLinks = <<>>

\* the file can be read and holds valid UTF-8
Readable(name) ==
    /\ fsys[name].kind = "file" /\ ~fsys[name].readerr
    /\ fsys[name].body.utf8

\* C3: for a link with a non-empty path that resolved to an existing entry
\* and a non-empty fragment: when the base name of the candidate path does
\* not match the pattern nothing is appended and nothing is fetched;
\* otherwise the target is requested from the cache, and when that succeeds
\* the cache holds the target's document and ExternalAnchorNotFound is
\* appended if and only if the fragment is not an anchor of the target.
C3_ExternalAnchor ==
    [][(AtLink /\ Link.Path # "" /\ Link.Fragment # ""
            /\ srel(file, Link) # "" /\ exists(fsys, srel(file, Link)))
          => IF ~Match(pat, Base(srel(file, Link)))
             THEN brokenLinks' = brokenLinks /\ NoFetch
             ELSE /\ requests' = Append(requests, srel(file, Link))
                  /\ Readable(srel(file, Link)) =>
                       /\ srel(file, Link) \in DOMAIN seen'
                       /\ seen'[srel(file, Link)] = DocOf(srel(file, Link))
                       /\ brokenLinks' =
                              IF Link.Fragment \in DocOf(srel(file, Link)).anchors
                              THEN brokenLinks
                              ELSE Append(brokenLinks,
                                          Violation(kindBrokenExternalAnchor))]_vars

\* C3 happens: a link with a fragment to an existing file that is no
\* document was passed, and after it a link to a document that lacks the
\* anchor was recorded
C3_Witness ==
    /\ pc = "links" /\ idx > 2
    /\ LET s == seen[file].links[idx - 1]
           t == seen[file].links[idx - 2]
       IN  /\ t.Path # "" /\ t.Fragment # ""
           /\ exists(fsys, srel(file, t))
           /\ ~Match(pat, Base(srel(file, t)))
           /\ s.Path # "" /\ s.Fragment # ""
           /\ srel(file, s) \in DOMAIN seen
           /\ brokenLinks =
                  <<[File |-> file, Link |-> s, kind |-> kindBrokenExternalAnchor]>>

\* the elements of a path with "." and ".." resolved, read from the right:
\* skip counts the ".." elements that still have an element to remove
RECURSIVE Resolved(_, _)
Resolved(elems, skip) ==
    IF elems = <<>> THEN [k \in 1..skip |-> ".."]
    ELSE LET e == elems[Len(elems)]
             front == SubSeq(elems, 1, Len(elems) - 1)
         IN  IF e = "" \/ e = "." THEN Resolved(front, skip)
             ELSE IF e = ".." THEN Resolved(front, skip + 1)
             ELSE IF skip > 0 THEN Resolved(front, skip - 1)
             ELSE Append(Resolved(front, 0), e)

\* the elements of the directory that holds document name
DirElems(name) == SubSeq(SplitSlash(name), 1, Len(SplitSlash(name)) - 1)

\* the candidate path of a link path written in document name: a rooted
\* path with its slash stripped, any other joined to the directory of the
\* document with ".." resolved
Candidate(name, path) ==
    IF SubSeq(path, 1, 1) = "/" THEN SubSeq(path, 2, Len(path))
    ELSE IF Resolved(DirElems(name) \o SplitSlash(path), 0) = <<>> THEN "."
    ELSE JoinSlash(Resolved(DirElems(name) \o SplitSlash(path), 0))

\* C4: the existence check of a link with a non-empty path is made on its
\* candidate path (rooted: the path without its slash, whatever the
\* directory of the document; otherwise the path joined to the directory of
\* the document, ".." resolved): FileNotFound is appended if and only if the
\* candidate path is not empty and cannot be opened.
C4_CandidatePath ==
    [][(AtLink /\ Link.Path # "")
          => /\ srel(file, Link) = Candidate(file, Link.Path)
             /\ (brokenLinks' = Append(brokenLinks, Violation(kindFileNotExists)))
                  <=> (Candidate(file, Link.Path) # ""
                         /\ ~exists(fsys, Candidate(file, Link.Path)))]_vars

\* C4 happens: a rooted link and a link with ".." written in a document of
\* a subdirectory were both resolved to a file of the root and passed
C4_Witness ==
    /\ pc = "links" /\ idx > 2 /\ DirElems(file) # <<>>
    /\ seen[file].links[idx - 2].Path = "/b.md"
    /\ seen[file].links[idx - 1].Path = "../b.md"
    /\ srel(file, seen[file].links[idx - 2]) = "b.md"
    /\ srel(file, seen[file].links[idx - 1]) = "b.md"
    /\ exists(fsys, "b.md")
    /\ brokenLinks = <<>>


\* C5: a link without a fragment whose path, written relative to the
\* directory of its document or rooted at the scan root, names an existing
\* entry of the tree gets no BrokenLink.
C5_ExistingPathPasses ==
    [][(AtLink /\ Link.Path # "" /\ Link.Fragment = ""
            /\ Present(Candidate(file, Link.Path)))
          => brokenLinks' = brokenLinks]_vars

\* a is before b in the order of elements, a proper prefix first
RECURSIVE ElemsLess(_, _)
ElemsLess(a, b) ==
    IF b = <<>> THEN FALSE
    ELSE IF a = <<>> THEN TRUE
    ELSE IF Head(a) = Head(b) THEN ElemsLess(Tail(a), Tail(b))
    ELSE StrLess(Head(a), Head(b))

\* the lexical walk hands document a to fn before document b
WalkedBefore(a, b) == ElemsLess(SplitSlash(a), SplitSlash(b))

\* the position of link s in the sequence links
PositionIn(links, s) == CHOOSE k \in 1..Len(links) : links[k] = s

\* entry a is reported before entry b: its document is walked first, or it
\* is an earlier link of the same document
ReportedBefore(a, b) ==
    \/ WalkedBefore(a.File, b.File)
    \/ /\ a.File = b.File
       /\ LET links == DocOf(a.File).links
          IN  PositionIn(links, a.Link) < PositionIn(links, b.Link)

\* the entries are in the order of the walk and, within a document, in the
\* order of its links
Ordered(list) ==
    \A i \in 1..Len(list) : i < Len(list) => ReportedBefore(list[i], list[i + 1])

\* C6: the BrokenLink entries are ordered by the lexical walk over their
\* documents and, within a document, by the order of its links; a step
\* only appends to the list, and the list returned is in that order.
C6_Ordered ==
    [][/\ Len(brokenLinks') >= Len(brokenLinks)
       /\ SubSeq(brokenLinks', 1, Len(brokenLinks)) = brokenLinks
       /\ Ordered(brokenLinks')
       /\ Ordered(result'.Links)]_vars

\* C6 happens: entries of two documents, two of them of one document
C6_Witness ==
    /\ Len(brokenLinks) >= 3
    /\ brokenLinks[1].File = brokenLinks[2].File
    /\ brokenLinks[2].File # brokenLinks[3].File

\* C7: when the walk ends without a fatal error CheckFS returns nil if and
\* only if no violation was recorded, and otherwise one BrokenLinksError
\* whose Links are all the recorded violations, never an empty list.
C7_Result ==
    (pc = "done" /\ result.kind # "error")
        => /\ result.kind \in {"nil", "BrokenLinksError"}
           /\ result.kind = "nil" <=> brokenLinks = <<>>
           /\ result.kind = "BrokenLinksError" =>
                  result.Links = brokenLinks /\ Len(result.Links) > 0

\* C7 happens: several violations returned in one BrokenLinksError
C7_Witness ==
    /\ pc = "done" /\ result.kind = "BrokenLinksError"
    /\ Len(result.Links) >= 3

\* C8: a step that asks getFileMeta for a file that cannot be read or is
\* not valid UTF-8, as the document of the walk or as the target of a link,
\* ends CheckFS with that error and without any of the violations recorded
\* so far; nothing is processed after CheckFS has returned.
C8_FatalAborts ==
    /\ [][(/\ Len(requests') > Len(requests)
           /\ requests'[Len(requests')] \notin DOMAIN seen
           /\ ~Readable(requests'[Len(requests')]))
             => /\ pc' = "done"
                /\ result'.kind = "error" /\ result'.err # ""
                /\ result'.Links = <<>>
                /\ brokenLinks' = brokenLinks
                /\ checked' \in {checked, Append(checked, <<file, idx>>)}]_vars
    /\ [][pc # "done"]_vars

\* C8 happens: the target of a link of a.md cannot be decoded, after a
\* violation was recorded and with files still to walk
C8_Witness ==
    /\ pc = "done" /\ result.kind = "error"
    /\ brokenLinks # <<>> /\ queue # <<>>
    /\ requests = <<"a.md", "b.md">>
    /\ ~fsys["b.md"].body.utf8

\* a sequence without a repeated element
NoRepeat(list) == \A i, j \in 1..Len(list) : list[i] = list[j] => i = j

\* C9: no path is read or parsed twice; a request for a cached path reads
\* nothing and leaves the cache as it is; a document enters the cache as
\* extracted from its file and is not changed afterwards.
C9_ParsedOnce ==
    [][/\ NoRepeat(reads') /\ NoRepeat(parses')
       /\ \A n \in DOMAIN seen' :
              IF n \in DOMAIN seen THEN seen'[n] = seen[n] ELSE seen'[n] = DocOf(n)
       /\ DOMAIN seen \subseteq DOMAIN seen' 
       /\ (/\ Len(requests') > Len(requests)
           /\ requests'[Len(requests')] \in DOMAIN seen)
            => reads' = reads /\ parses' = parses /\ seen' = seen]_vars

\* C9 happens: b.md is requested as a target before its turn in the walk,
\* a.md as a target after its own, and each was read once
C9_Witness ==
    /\ requests = <<"a.md", "b.md", "b.md", "a.md">>
    /\ reads = <<"a.md", "b.md">>
    /\ parses = <<"a.md", "b.md">>

\* the documents of the walk: the files outside .git whose name matches
Documents ==
    {n \in DOMAIN fsys :
        /\ fsys[n].kind = "file"
        /\ \A k \in 1..Len(SplitSlash(n)) : SplitSlash(n)[k] # ".git"
        /\ Match(pat, SplitSlash(n)[Len(SplitSlash(n))])}

\* how often e occurs in list
Count(list, e) == Cardinality({k \in 1..Len(list) : list[k] = e})

\* C10: when CheckFS ends without a fatal error, every link of every
\* document of the walk went through the loop exactly once, and nothing
\* else did, however many violations were recorded.
C10_EveryLinkOnce ==
    (pc = "done" /\ result.kind # "error")
        => /\ \A n \in Documents : \A k \in 1..Len(DocOf(n).links) :
                  Count(checked, <<n, k>>) = 1
           /\ \A k \in 1..Len(checked) :
                  /\ checked[k][1] \in Documents
                  /\ checked[k][2] \in 1..Len(DocOf(checked[k][1]).links)

\* C10 happens: violations in the first document, a document cached as a
\* target before its turn, and links checked after both
C10_Witness ==
    /\ pc = "done" /\ result.kind = "BrokenLinksError"
    /\ Len(brokenLinks) >= 3
    /\ brokenLinks[1].File = "a.md" /\ brokenLinks[2].File = "a.md"
    /\ Len(requests) >= 3 /\ requests[2] = "b.md" /\ requests[3] = "b.md"
    /\ Len(checked) >= 6


\* the path lies below a directory named .git
InGit(name) ==
    \E k \in 1..(Len(SplitSlash(name)) - 1) : SplitSlash(name)[k] = ".git"

\* C11: nothing below a directory named .git, at the root or deeper, is
\* handed to fn: no such file becomes the document of the link loop, none
\* of its links is checked and no BrokenLink names it as its File, also
\* when its base name matches the pattern.
C11_GitPruned ==
    /\ \A k \in 1..Len(queue) : ~InGit(queue[k])
    /\ pc = "links" => ~InGit(file)
    /\ \A k \in 1..Len(checked) : ~InGit(checked[k][1])
    /\ \A k \in 1..Len(brokenLinks) : ~InGit(brokenLinks[k].File)
    /\ \A k \in 1..Len(result.Links) : ~InGit(result.Links[k].File)

\* C11 happens: the walk ended with nil although matching files below
\* .git and sub/.git hold links that are broken
C11_Witness ==
    /\ pc = "done" /\ result.kind = "nil"
    /\ \A n \in {".git/g.md", "sub/.git/h.md"} :
           /\ fsys[n].kind = "file" /\ Match(pat, Base(n))
           /\ DocOf(n).links # <<>>
    /\ ~Present(".git/nope.md")
    /\ "nope" \notin DocOf("sub/.git/h.md").anchors
    /\ Len(checked) >= 2


\* the patterns of the scans that path.Match cannot parse
Malformed == {"*.md[", "[*.md"}

\* C12: with a malformed pattern CheckFS returns the pattern error and
\* nothing else, and it does so before the walk: the root is never queued,
\* no file is requested, read or parsed and no link is checked.
C12_BadPatternRejected ==
    pat \in Malformed =>
        /\ pc \in {"start", "done"}
        /\ queue = <<>> /\ file = "" /\ seen = <<>>
        /\ requests = <<>> /\ reads = <<>> /\ parses = <<>> /\ checked = <<>>
        /\ brokenLinks = <<>>
        /\ pc = "done" =>
               /\ result.kind = "error"
               /\ result.err = "syntax error in pattern"

\* C12 happens: CheckFS returned the pattern error over a tree whose a.md
\* has links that a scan would report
C12_Witness ==
    /\ pc = "done" /\ pat = "[*.md"
    /\ result.kind = "error"
    /\ fsys["a.md"].body.utf8
    /\ \E k \in 1..Len(DocOf("a.md").links) :
           /\ DocOf("a.md").links[k].Path = ""
           /\ DocOf("a.md").links[k].Fragment \notin DocOf("a.md").anchors


\* the destination begins with a URL scheme: a letter, then letters,
\* digits, '+', '-' or '.', then ':'
HasScheme(dest) ==
    LET colon == IndexByte(dest, ":")
    IN  /\ colon > 0
        /\ IsLetter(SubSeq(dest, 1, 1))
        /\ \A k \in 2..colon :
               \/ IsLetter(SubSeq(dest, k, k)) \/ IsNumber(SubSeq(dest, k, k))
               \/ SubSeq(dest, k, k) \in {"+", "-", "."}

\* the destination names a host: "//" and then a host
HasHost(dest) ==
    /\ Len(dest) > 2 /\ SubSeq(dest, 1, 2) = "//" /\ SubSeq(dest, 3, 3) # "/"

\* the destination is external
External(dest) == HasScheme(dest) \/ HasHost(dest)

\* the LinkInfo has neither scheme nor host, and a path or a fragment
LocalInfo(s) == ~External(s.Raw) /\ (s.Path # "" \/ s.Fragment # "")

\* C13: the walk appends no LinkInfo for a node whose destination carries
\* a scheme or a host, and every LinkInfo of the list, while it grows and as
\* returned, has no scheme, no host and a non-empty path or fragment.
C13_NoExternalLinks ==
    /\ [][(/\ phase = "walk" /\ cursor <= Len(document.nodes)
           /\ External(document.nodes[cursor].dest))
             => localLinks' = localLinks]_vars
    /\ [](/\ \A k \in 1..Len(localLinks) : LocalInfo(localLinks[k])
          /\ \A k \in 1..Len(details.links) : LocalInfo(details.links[k]))

\* C13 happens: of four nodes, with the destinations https://example.org/,
\* mailto:joe@example.org, //example.org/a.md and b.md#hi, the last alone
\* is returned
C13_Witness ==
    /\ phase = "done" /\ Len(document.nodes) = 4
    /\ \E k \in 1..4 : HasHost(document.nodes[k].dest)
    /\ \E k \in 1..4 : HasPrefix(document.nodes[k].dest, "mailto:")
    /\ \E k \in 1..4 : HasPrefix(document.nodes[k].dest, "https:")
    /\ Len(details.links) = 1
    /\ details.links[1].Raw = "b.md#hi"
    /\ details.links[1].Path = "b.md" /\ details.links[1].Fragment = "hi"


\* how many characters of s are c
Occurrences(s, c) == Cardinality({k \in 1..Len(s) : SubSeq(s, k, k) = c})

\* the whitespace characters of text after its first position
LaterSpaces(text) == Cardinality({k \in 2..Len(text) : SubSeq(text, k, k) = " "})

\* the maximal runs of whitespace of text that begin after its first position
LaterRuns(text) ==
    Cardinality({k \in 2..Len(text) :
                    SubSeq(text, k, k) = " " /\ SubSeq(text, k - 1, k - 1) # " "})

\* the first heading of the document got an id and is plain text, without
\* inline links
PlainFirst ==
    /\ ids # <<>> /\ ids[1] # <<>>
    /\ IndexByte(document.headings[1], "]") < 0

\* C14, as the code has it: every whitespace character of the heading text
\* other than one at its first position contributes one '-' to the slug, so
\* that a run of n whitespace characters contributes n dashes.
C14_DashPerSpace ==
    PlainFirst =>
        Occurrences(ids[1][1], "-") =
            Occurrences(document.headings[1], "-") + LaterSpaces(document.headings[1])

\* C14 happens: runs of two, three and four spaces gave as many dashes
C14_Witness ==
    /\ PlainFirst
    /\ document.headings[1] = "Punctuation,   and    repeating:  spaces"
    /\ ids[1] = <<"punctuation---and----repeating--spaces">>

\* C14, as stated: a maximal run of whitespace characters contributes
\* exactly one '-' to the slug.
C14_RunsCollapsed ==
    PlainFirst =>
        Occurrences(ids[1][1], "-") =
            Occurrences(document.headings[1], "-") + LaterRuns(document.headings[1])


\* the position of the first letter or digit of s, Len(s) + 1 without one
FirstKept(s) ==
    LET kept == {k \in 1..Len(s) :
                    IsLetter(SubSeq(s, k, k)) \/ IsNumber(SubSeq(s, k, k))}
    IN  IF kept = {} THEN Len(s) + 1
        ELSE CHOOSE k \in kept : \A j \in kept : k <= j

\* how many of the characters of s before position n are c, the first
\* position left out when it is not counted
CountBefore(s, n, c, first) ==
    Cardinality({k \in (IF first THEN 1 ELSE 2)..(n - 1) : SubSeq(s, k, k) = c})

\* C15, as the code has it: a whitespace character at the first position
\* of the heading text contributes nothing, every later one contributes one
\* '-' also when it precedes the first letter or digit: the dashes before
\* the first letter or digit of the slug are the literal dashes and the
\* whitespace characters past the first position that precede the first
\* letter or digit of the text.
C15_FirstSpaceDropped ==
    PlainFirst =>
        CountBefore(ids[1][1], FirstKept(ids[1][1]), "-", TRUE) =
            CountBefore(document.headings[1], FirstKept(document.headings[1]), "-", TRUE)
            + CountBefore(document.headings[1], FirstKept(document.headings[1]), " ", FALSE)

\* C15 happens: the text begins with a whitespace character and its slug
\* with a letter
C15_Witness ==
    /\ PlainFirst
    /\ SubSeq(document.headings[1], 1, 1) = " "
    /\ FirstKept(document.headings[1]) = 2
    /\ FirstKept(ids[1][1]) = 1

\* C15, as stated: the whitespace characters before the first letter or
\* digit of the text contribute no '-', so that the dashes before the first
\* letter or digit of the slug are literal dashes of the text.
C15_NoLeadingDash ==
    PlainFirst =>
        CountBefore(ids[1][1], FirstKept(ids[1][1]), "-", TRUE) =
            CountBefore(document.headings[1], FirstKept(document.headings[1]), "-", TRUE)


\* n in decimal
RECURSIVE Decimal(_)
Decimal(n) ==
    IF n < 10 THEN SubSeq("0123456789", n + 1, n + 1)
    ELSE Decimal(n \div 10) \o SubSeq("0123456789", (n % 10) + 1, (n % 10) + 1)

\* the headings of the document are not empty and have one base slug
OneBase ==
    \A k \in 1..Len(document.headings) :
        /\ document.headings[k] # ""
        /\ slugify(document.headings[k]) = slugify(document.headings[1])

\* C16: the ids handed out for one document differ from each other and are
\* the anchors of the document; when all headings have the base slug s the
\* 1st gets s, the k-th up to the 100th s-(k-1), and every later one none,
\* which changes nothing and stops nothing.
C16_AscendingSuffixes ==
    /\ \A j, k \in 1..Len(ids) : (ids[j] # <<>> /\ ids[j] = ids[k]) => j = k
    /\ idgen = {ids[k][1] : k \in {j \in 1..Len(ids) : ids[j] # <<>>}}
    /\ OneBase =>
           \A k \in 1..Len(ids) :
               ids[k] = IF k = 1 THEN <<slugify(document.headings[1])>>
                        ELSE IF k <= 100
                        THEN <<slugify(document.headings[1]) \o "-" \o Decimal(k - 1)>>
                        ELSE <<>>
    /\ phase \in {"parse", "walk", "done"}
    /\ phase = "done" => Len(ids) = Len(document.headings) /\ details.anchors = idgen

\* C16 happens: the 100th heading with the base slug hi got hi-99, the
\* 101st nothing, and the document was extracted with 100 anchors
C16_Witness ==
    /\ phase = "done" /\ OneBase
    /\ Len(ids) >= 101
    /\ ids[1] = <<"hi">> /\ ids[2] = <<"hi-1">>
    /\ ids[100] = <<"hi-99">> /\ ids[101] = <<>>
    /\ Cardinality(details.anchors) = 100


\* the headings that the bytes of file name hold
HeadingsOf(name) == fsys[name].body.headings

\* anchor a is the base slug of heading text, bare or with one of the
\* suffixes -1 .. -n
FromHeading(a, text, n) ==
    \/ a = slugify(text)
    \/ \E j \in 1..n : a = slugify(text) \o "-" \o Decimal(j)

\* the anchors come from the headings of file name alone: the bare base
\* slug of each heading is among them, there are no more anchors than
\* headings, and each is the slug of one of the headings with at most a
\* suffix that the headings of the file account for
OwnSlugs(name, anchors) ==
    /\ \A k \in 1..Len(HeadingsOf(name)) : slugify(HeadingsOf(name)[k]) \in anchors
    /\ Cardinality(anchors) <= Len(HeadingsOf(name))
    /\ \A a \in anchors : \E k \in 1..Len(HeadingsOf(name)) :
           FromHeading(a, HeadingsOf(name)[k], Len(HeadingsOf(name)) - 1)

\* C17: a document enters the cache with anchors that come from its own
\* headings alone, whichever documents were extracted before it, and the
\* extraction of another document changes none of the anchors of a
\* document already there.
C17_SlugsPerDocument ==
    [][\A n \in DOMAIN seen' :
          IF n \in DOMAIN seen THEN seen'[n].anchors = seen[n].anchors
          ELSE OwnSlugs(n, seen'[n].anchors)]_vars

\* C17 happens: a.md, b.md and sub/c.md all have the heading "Hi!", were
\* extracted one after the other, b.md as the target of a link, and each
\* has the anchor hi
C17_Witness ==
    /\ {"a.md", "b.md", "sub/c.md"} \subseteq DOMAIN seen
    /\ parses = <<"a.md", "b.md", "sub/c.md">>
    /\ Len(requests) >= 2 /\ requests[2] = "b.md" /\ Len(checked) >= 1
    /\ seen["a.md"].anchors = {"hi"}
    /\ seen["b.md"].anchors = {"hi"}
    /\ seen["sub/c.md"].anchors = {"hi", "hi-1"}


\* the '_' characters of the heading value that are text and not emphasis
\* delimiters
LiteralUnderscores(value) ==
    Cardinality({i \in 0..(Len(value) - 1) :
                    SubSeq(value, i + 1, i + 1) = "_" /\ ~Delimiter(value, i)})

\* C18: the id of a heading is the slug of its plain text: the delimiters
\* of emphasis, '*' or '_', leave nothing in it, and an inline link leaves
\* its text and not its destination.
C18_PlainTextSlug ==
    (ids # <<>> /\ ids[1] # <<>>) =>
        /\ ids[1][1] = slugLoop(textOnly(document.headings[1]), 0)
        /\ Occurrences(ids[1][1], "_") = LiteralUnderscores(document.headings[1])

\* the parts of C18 the code keeps: the heading with a link gets
\* a-link-inside, also with '_' emphasis next to the link, and '*' emphasis
\* leaves nothing
C18_LinkUnwrapped ==
    (ids # <<>> /\ ids[1] # <<>>) =>
        /\ IndexByte(document.headings[1], "]") >= 0 =>
               ids[1][1] = slugLoop(textOnly(document.headings[1]), 0)
        /\ document.headings[1] = "A [Link](https://example.org/) Inside" =>
               ids[1] = <<"a-link-inside">>
        /\ Occurrences(ids[1][1], "*") = 0


\* C20: the iteration for a link whose path is "/" has an empty candidate
\* path: it appends no BrokenLink of any kind, with or without a fragment
\* and whether or not the fragment is an anchor of the document, fetches
\* nothing and goes on to the next link.
C20_RootSlashSkipped ==
    [][(AtLink /\ Link.Path = "/")
          => /\ srel(file, Link) = ""
             /\ brokenLinks' = brokenLinks
             /\ NoFetch
             /\ idx' = idx + 1 /\ pc' = "links"]_vars

\* C20 happens: sub/c.md links to "/#nope" and to "/", has no anchor
\* nope, and both links were passed without a BrokenLink
C20_Witness ==
    /\ pc = "links" /\ file = "sub/c.md" /\ idx = 3
    /\ seen[file].links[1].Path = "/" /\ seen[file].links[1].Fragment = "nope"
    /\ seen[file].links[2].Path = "/" /\ seen[file].links[2].Fragment = ""
    /\ "nope" \notin seen[file].anchors
    /\ \A k \in 1..Len(brokenLinks) : brokenLinks[k].File # file
    /\ Count(checked, <<file, 1>>) = 1 /\ Count(checked, <<file, 2>>) = 1


\* the entries of list that are no FileNotFound for the path b.md
RECURSIVE NotForB(_)
NotForB(list) ==
    IF list = <<>> THEN <<>>
    ELSE IF /\ Head(list).kind = kindFileNotExists
            /\ Candidate(Head(list).File, Head(list).Link.Path) = "b.md"
         THEN NotForB(Tail(list))
         ELSE <<Head(list)>> \o NotForB(Tail(list))

\* the call before this one
Previous == runs[Len(runs)]

\* C19: a call that returns on the file system and pattern of an earlier
\* call returns what that call returned, error or violation list; and a
\* call that returns after the missing b.md was written, with the heading
\* that its links ask for, returns the list of the call before without the
\* FileNotFound entries for b.md, nil when no other entry was in it.
C19_NoStateBetweenScans ==
    (pc = "done" /\ runs # <<>>) =>
        /\ \A k \in 1..Len(runs) :
               (runs[k].fsys = fsys /\ runs[k].pat = pat) => result = runs[k].result
        /\ (/\ Previous.fsys["b.md"].kind = "absent"
            /\ fsys = [Previous.fsys EXCEPT !["b.md"] = PlainB]
            /\ Previous.result.kind # "error")
              => /\ result.Links = NotForB(Previous.result.Links)
                 /\ result.kind = IF NotForB(Previous.result.Links) = <<>>
                                   THEN "nil" ELSE "BrokenLinksError"

\* C19 happens: the first scan reported three links to the missing b.md,
\* from a.md and from sub/c.md, rooted, relative and with a fragment, and
\* the scan after b.md was written returned nil
C19_Witness ==
    /\ pc = "done" /\ Len(runs) = 1
    /\ Previous.fsys["b.md"].kind = "absent" /\ fsys["b.md"] = PlainB
    /\ Previous.result.kind = "BrokenLinksError"
    /\ Len(Previous.result.Links) = 3
    /\ Previous.result.Links[1].File = "a.md"
    /\ Previous.result.Links[1].Link.Fragment = "hi"
    /\ Previous.result.Links[2].Link.Path = "/b.md"
    /\ Previous.result.Links[3].Link.Path = "../b.md"
    /\ result.kind = "nil"

\* C19 happens also without a change: the second scan of a tree returned
\* the violations of the first
C19_WitnessSame ==
    /\ pc = "done" /\ Len(runs) = 1
    /\ Previous.fsys = fsys
    /\ result.kind = "BrokenLinksError" /\ Len(result.Links) >= 2
    /\ result = Previous.result

====
